---- MODULE Spec2Model ----
(***************************************************************************)
(* Model of the Latin decliner of cltk_collatinus (LatinDecliner.getRoots  *)
(* and LatinDecliner.decline) over a loaded dataset of paradigms and       *)
(* lemma entries, and of the compiler of that dataset                      *)
(* (collatinus_data/convert.py: convert_models and parseLemma).            *)
(*                                                                         *)
(* Python values are modelled as follows:                                  *)
(*   str            a TLA+ string (Len, \o and SubSeq act on it)           *)
(*   list           a sequence                                             *)
(*   dict           a sequence of records [k |-> key, v |-> value] with    *)
(*                  distinct keys, in insertion order (the iteration order *)
(*                  of a Python dict); the two loaded tables, which are    *)
(*                  only ever indexed, are functions                       *)
(*   None / ""      the empty string (both are falsy where the code tests) *)
(***************************************************************************)
EXTENDS Integers, Sequences, FiniteSets, TLC

VARIABLES models, lemmas, last

vars == <<models, lemmas, last>>

\* The compiler (convert.py), one step per source line:
\*   normalize            the normalize argument of the two functions
\*   heap                 the dict objects that are updated in place (the R
\*                        and the des of every paradigm), by address
\*   cmodels              convert_models' models: name -> paradigm, whose R
\*                        and des are addresses into heap
\*   last_model           the paradigm the lines apply to
\*   variable_replacement the macros declared so far
\*   clemmas              parseLemma's lemmas: key -> entry
\*   done                 what the last step did: the function, the line,
\*                        and how it ended
\*   lineno               the number of lines read
VARIABLES normalize, heap, cmodels, last_model, variable_replacement,
          clemmas, done, lineno

cvars == <<normalize, heap, cmodels, last_model, variable_replacement,
           clemmas, done, lineno>>

(***************************************************************************)
(* Bounds of the model.                                                    *)
(***************************************************************************)
\* Deletion counts of the derivation rules range over 0..MaxDeletion.
MaxDeletion == 2
\* Constant-suffix sequences (sufd) have at most MaxSufd elements.
MaxSufd == 2
\* The compiler reads at most MaxLines source lines.
MaxLines == 6

(***************************************************************************)
(* Python built-ins used by the decliner.                                  *)
(***************************************************************************)
Max(a, b) == IF a >= b THEN a ELSE b

\* s[:-n]: Python reads -0 as 0, so s[:-0] is s[:0], the empty string.
SliceDropLast(s, n) ==
    IF n = 0 THEN "" ELSE SubSeq(s, 1, Max(Len(s) - n, 0))

\* Position of the first occurrence of the one-character string sep in s
\* at or after position i, or 0 when there is none.
RECURSIVE Find(_, _, _)
Find(s, sep, i) ==
    IF i > Len(s) THEN 0
    ELSE IF SubSeq(s, i, i) = sep THEN i
    ELSE Find(s, sep, i + 1)

\* s.split(sep): always at least one element; "".split(",") is [""].
RECURSIVE split(_, _)
split(s, sep) ==
    LET i == Find(s, sep, 1)
    IN  IF i = 0 THEN <<s>>
        ELSE <<SubSeq(s, 1, i - 1)>> \o split(SubSeq(s, i + 1, Len(s)), sep)

Digits == <<"0", "1", "2", "3", "4", "5", "6", "7", "8", "9">>

\* int(s) of a decimal string.
RECURSIVE int(_)
int(s) ==
    IF Len(s) = 0 THEN 0
    ELSE LET c == SubSeq(s, Len(s), Len(s))
             d == CHOOSE n \in 0..9 : Digits[n + 1] = c
         IN  10 * int(SubSeq(s, 1, Len(s) - 1)) + d

\* str(n) of a non-negative integer.
RECURSIVE str(_)
str(n) ==
    IF n < 10 THEN Digits[n + 1]
    ELSE str(n \div 10) \o Digits[(n % 10) + 1]

\* A list with x inserted before the first element greater than x.
RECURSIVE Insert(_, _)
Insert(x, seq) ==
    IF seq = <<>> THEN <<x>>
    ELSE IF x <= Head(seq) THEN <<x>> \o seq
    ELSE <<Head(seq)>> \o Insert(x, Tail(seq))

RECURSIVE SortAsc(_)
SortAsc(seq) ==
    IF seq = <<>> THEN <<>> ELSE Insert(Head(seq), SortAsc(Tail(seq)))

\* A list left in the order it was given.
Unsorted(seq) == seq

\* sorted(seq) of a list of integers.
sorted(seq) == SortAsc(seq)

(***************************************************************************)
(* Python dict: insertion-ordered key/value pairs.                         *)
(***************************************************************************)
DictKeys(d) == [i \in 1..Len(d) |-> d[i].k]
DictHas(d, key) == \E i \in 1..Len(d) : d[i].k = key
DictIndex(d, key) == CHOOSE i \in 1..Len(d) : d[i].k = key
DictGet(d, key) == d[DictIndex(d, key)].v
\* d[key] = val: an existing key keeps its position.
DictSet(d, key, val) ==
    IF DictHas(d, key) THEN [d EXCEPT ![DictIndex(d, key)].v = val]
    ELSE Append(d, [k |-> key, v |-> val])
\* del d[key]
DictDel(d, key) == SelectSeq(d, LAMBDA e : e.k # key)
\* d.update(e)
RECURSIVE DictUpdate(_, _)
DictUpdate(d, e) ==
    IF e = <<>> THEN d
    ELSE DictUpdate(DictSet(d, Head(e).k, Head(e).v), Tail(e))

\* Concatenation of a list of lists.
RECURSIVE Concat(_)
Concat(ll) == IF ll = <<>> THEN <<>> ELSE Head(ll) \o Concat(Tail(ll))

(***************************************************************************)
(* LatinDecliner.getRoots                                                  *)
(***************************************************************************)
\* The outcome of a call that returned.
OK == "ok"
\* raise UnknownLemma(...)
UnknownLemma == "UnknownLemma"
\* Python's KeyError on indexing a dict with a key it does not hold.
KeyError == "KeyError"

\* The optional argument model=None of getRoots: no paradigm / a paradigm.
None == <<>>
Some(model) == <<model>>

ROOT_IDS ==
    << [k |-> "K", v |-> "lemma"],
       [k |-> "1", v |-> "geninf"],
       [k |-> "2", v |-> "perf"] >>

\* The membership test made against the paradigm table instead.
InModels(lemma) == lemma \in DOMAIN models

\* `lemma in self.__lemmas__`
InLemmas(lemma) == lemma \in DOMAIN lemmas

\* The pre-computed roots of the entry: geninf for "1", perf for "2".
original_roots(lemma_entry) ==
    LET kept == SelectSeq(ROOT_IDS,
                    LAMBDA e : e.k # "K" /\ lemma_entry[e.v] # "")
    IN  [i \in 1..Len(kept) |->
            [k |-> kept[i].k, v |-> split(lemma_entry[kept[i].v], ",")]]

\* lemma_root[:-deletion] + addition
DeriveRoot(lemma_root, deletion, addition) ==
    SliceDropLast(lemma_root, deletion) \o addition

\* The loop over model["R"].items(), from the roots returned so far.
RECURSIVE returned_roots(_, _, _)
returned_roots(R, lemma_entry, acc) ==
    IF R = <<>> THEN acc
    ELSE
      LET model_root_id == Head(R).k
          model_root_data == Head(R).v
          lemma_roots ==
              IF model_root_id # "1" /\ DictHas(acc, model_root_id)
              THEN DictGet(acc, model_root_id)
              ELSE split(lemma_entry.lemma, ",")
          derived ==
              IF model_root_data.K THEN <<lemma_entry.lemma>>
              ELSE [i \in 1..Len(lemma_roots) |->
                      DeriveRoot(lemma_roots[i], model_root_data.deletion,
                                 model_root_data.addition)]
      IN  returned_roots(Tail(R), lemma_entry,
                         DictSet(acc, model_root_id, derived))

\* original_roots.update(returned_roots); return original_roots
MergeRoots(original, returned) == DictUpdate(original, returned)

\* getRoots(lemma, model): the outcome and, when it returned, the roots.
getRoots(lemma, model) ==
    IF ~ InLemmas(lemma) THEN [outcome |-> UnknownLemma, roots |-> <<>>]
    ELSE IF lemma \notin DOMAIN lemmas
         THEN [outcome |-> KeyError, roots |-> <<>>]
    ELSE
      LET lemma_entry == lemmas[lemma]
          m == IF model = None THEN models[lemma_entry.model] ELSE model[1]
      IN  [outcome |-> OK,
           roots |-> MergeRoots(original_roots(lemma_entry),
                                returned_roots(m.R, lemma_entry, <<>>))]

(***************************************************************************)
(* LatinDecliner.decline                                                   *)
(***************************************************************************)
\* keys = sorted([int(key) for key in model["des"].keys()])
keys(model) == sorted([i \in 1..Len(model.des) |-> int(model.des[i].k)])

\* forms_data = [(key, model["des"][str(key)]) for key in keys]
forms_data(model) ==
    LET ks == keys(model)
    IN  [i \in 1..Len(ks) |->
            [k |-> ks[i], v |-> DictGet(model.des, str(ks[i]))]]

\* [root + ending] with the two loops exchanged: endings outside.
EndingsTimesRoots(rootList, endings) ==
    Concat([j \in 1..Len(endings) |->
              [i \in 1..Len(rootList) |-> rootList[i] \o endings[j]]])

\* [root + ending], roots in the outer loop and endings in the inner one.
RootsTimesEndings(rootList, endings) ==
    Concat([i \in 1..Len(rootList) |->
              [j \in 1..Len(endings) |-> rootList[i] \o endings[j]]])

\* The forms of one tag: each (root_id, endings) entry in stored order.
TagForms(form_list, roots) ==
    Concat([i \in 1..Len(form_list) |->
              RootsTimesEndings(DictGet(roots, form_list[i].root_id),
                                form_list[i].endings)])

\* The generation loop: roots[root_id] raises KeyError on an unknown id.
GenerateForms(model, roots) ==
    LET fd == forms_data(model)
    IN  IF \E i \in 1..Len(fd) : \E j \in 1..Len(fd[i].v) :
              ~ DictHas(roots, fd[i].v[j].root_id)
        THEN [outcome |-> KeyError, forms |-> <<>>]
        ELSE [outcome |-> OK,
              forms |-> [i \in 1..Len(fd) |->
                           [k |-> fd[i].k, v |-> TagForms(fd[i].v, roots)]]]

\* new_forms with the two loops exchanged: forms outside, sufd inside.
FormsTimesSufd(sufd, iter_forms) ==
    Concat([f \in 1..Len(iter_forms) |->
              [s \in 1..Len(sufd) |-> iter_forms[f] \o sufd[s]]])

\* new_forms of one tag: sufd in the outer loop, forms in the inner one.
SufdForms(sufd, iter_forms) ==
    Concat([s \in 1..Len(sufd) |->
              [f \in 1..Len(iter_forms) |-> iter_forms[f] \o sufd[s]]])

\* The constant-suffix pass.
SufdPass(model, forms) ==
    IF Len(model.sufd) > 0
    THEN [i \in 1..Len(forms) |->
            [k |-> forms[i].k, v |-> SufdForms(model.sufd, forms[i].v)]]
    ELSE forms

\* The (suffix, tag) pairs in the order the two nested loops visit them.
SufPairs(suf) ==
    Concat([i \in 1..Len(suf) |->
              [j \in 1..Len(suf[i].tags) |->
                  [suffix |-> suf[i].suffix, tag |-> suf[i].tags[j]]]])

\* The list a suffix is applied to, read from the live forms.
LiveSource(cached_forms, forms, tag) == DictGet(forms, tag)

\* The list a suffix is applied to: cached_forms[modified_form].
SufSource(cached_forms, forms, tag) == DictGet(cached_forms, tag)

\* forms[modified_form] += [f+suffix for f in cached_forms[modified_form]]
RECURSIVE SufLoop(_, _, _)
SufLoop(pairs, cached_forms, forms) ==
    IF pairs = <<>> THEN forms
    ELSE
      LET p == Head(pairs)
          src == SufSource(cached_forms, forms, p.tag)
          added == [i \in 1..Len(src) |-> src[i] \o p.suffix]
      IN  SufLoop(Tail(pairs), cached_forms,
                  DictSet(forms, p.tag, DictGet(forms, p.tag) \o added))

\* The alternative-suffix pass: forms[tag] raises KeyError on a missing tag.
SufPass(model, forms) ==
    LET pairs == SufPairs(model.suf)
    IN  IF \E i \in 1..Len(pairs) : ~ DictHas(forms, pairs[i].tag)
        THEN [outcome |-> KeyError, forms |-> <<>>]
        ELSE [outcome |-> OK, forms |-> SufLoop(pairs, forms, forms)]

\* Absent tags looked up under a key that forms never holds: none removed.
AbsSkipped(abs, forms) == forms

\* Absent tags emptied instead of deleted.
RECURSIVE AbsEmptied(_, _)
AbsEmptied(abs, forms) ==
    IF abs = <<>> THEN forms
    ELSE AbsEmptied(Tail(abs),
                    IF DictHas(forms, Head(abs))
                    THEN DictSet(forms, Head(abs), <<>>) ELSE forms)

\* for abs_form in model["abs"]: if abs_form in forms: del forms[abs_form]
RECURSIVE AbsPass(_, _)
AbsPass(abs, forms) ==
    IF abs = <<>> THEN forms
    ELSE AbsPass(Tail(abs),
                 IF DictHas(forms, Head(abs))
                 THEN DictDel(forms, Head(abs)) ELSE forms)

\* [form for case_forms in forms.values() for form in case_forms]
Flatten(forms) == Concat([i \in 1..Len(forms) |-> forms[i].v])

\* A call that did not return: no stage has a value.
Raised(exc) ==
    [outcome |-> exc, roots |-> <<>>, base |-> <<>>, afterSufd |-> <<>>,
     afterSuf |-> <<>>, forms |-> <<>>, flat |-> <<>>]

\* decline(lemma, flatten): the outcome, the value of forms after each pass
\* and the returned value (forms, or flat when flatten is set).
decline(lemma, flatten) ==
    IF ~ InLemmas(lemma) THEN Raised(UnknownLemma)
    ELSE IF lemma \notin DOMAIN lemmas THEN Raised(KeyError)
    ELSE
      LET lemma_entry == lemmas[lemma]
          model == models[lemma_entry.model]
          roots == getRoots(lemma, Some(model)).roots
          gen == GenerateForms(model, roots)
          sufd == SufdPass(model, gen.forms)
          suf == SufPass(model, sufd)
          final == AbsPass(model.abs, suf.forms)
      IN  IF gen.outcome # OK THEN Raised(gen.outcome)
          ELSE IF suf.outcome # OK THEN Raised(suf.outcome)
          ELSE [outcome |-> OK, roots |-> roots, base |-> gen.forms,
                afterSufd |-> sufd, afterSuf |-> suf.forms, forms |-> final,
                flat |-> IF flatten THEN Flatten(final) ELSE <<>>]

(***************************************************************************)
(* The datasets a decliner is loaded with (LatinDecliner.__init__ reads    *)
(* them from collected.json).                                              *)
(***************************************************************************)
\* A root rule of R: the sentinel K, or [deletion, addition].
KRule == [K |-> TRUE, deletion |-> 0, addition |-> ""]
Rule(d, a) == [K |-> FALSE, deletion |-> d, addition |-> a]

Entry(key, val) == [k |-> key, v |-> val]
Des(root_id, endings) == [root_id |-> root_id, endings |-> endings]
Suf(suffix, tags) == [suffix |-> suffix, tags |-> tags]
Paradigm(R, des, sufd, suf, abs) ==
    [R |-> R, des |-> des, sufd |-> sufd, suf |-> suf, abs |-> abs]

Additions == {"", "x"}
DerivationRules == {Rule(d, a) : d \in 0..MaxDeletion, a \in Additions}

\* R tables: root "0" always, roots "1" and "2" optional.
RTables ==
    { <<Entry("0", r0)>> \o r1 \o r2 :
        r0 \in {KRule, Rule(1, "")},
        r1 \in {<<>>} \cup {<<Entry("1", r)>> : r \in DerivationRules},
        r2 \in {<<>>, <<Entry("2", Rule(1, "t"))>>} }

RFull == <<Entry("0", Rule(1, "")), Entry("1", Rule(1, "i")),
           Entry("2", Rule(2, "t"))>>
RKOnly == <<Entry("0", KRule)>>

\* des tables, in the key order of the JSON object (not sorted).
DesA ==
    << Entry("2", <<Des("0", <<"", "s">>)>>),
       Entry("10", <<Des("1", <<"i">>), Des("2", <<"um", "u">>)>>),
       Entry("1", <<Des("0", <<"a">>)>>) >>
DesB ==
    << Entry("1", <<Des("1", <<"e", "o">>)>>),
       Entry("3", <<Des("0", <<"m">>)>>) >>
DesTables == {DesA, DesB, <<>>}

SufdStrings == {"q", "c"}
SufdSeqs ==
    UNION {[1..n -> SufdStrings] : n \in 0..MaxSufd}

SufTables ==
    { <<>>,
      <<Suf("ce", <<1>>)>>,
      <<Suf("ce", <<1, 10>>), Suf("ine", <<10, 1>>)>> }

AbsLists == { <<>>, <<10>>, <<1, 99>> }

\* Paradigms that vary the root rules, and paradigms that vary the passes.
RootFamily ==
    {Paradigm(R, DesA, <<>>, <<>>, <<>>) : R \in RTables}
FormFamily ==
    {Paradigm(R, des, sufd, suf, abs) :
        R \in {RFull, RKOnly}, des \in DesTables, sufd \in SufdSeqs,
        suf \in SufTables, abs \in AbsLists}
Paradigms == RootFamily \cup FormFamily

uita ==
    Paradigm(<<Entry("1", Rule(1, ""))>>,
             << Entry("1", <<Des("1", <<"a">>)>>),
                Entry("3", <<Des("1", <<"am">>)>>),
                Entry("11", <<Des("1", <<"is">>)>>) >>,
             <<>>, <<>>, <<>>)

LemmaEntry(lemma, model, geninf, perf) ==
    [lemma |-> lemma, model |-> model, geninf |-> geninf, perf |-> perf]

LemmaTable ==
    [l \in {"via", "amo", "vir"} |->
        CASE l = "via" -> LemmaEntry("via", "uita", "", "")
          [] l = "amo" -> LemmaEntry("amo", "m", "av,iv", "amat")
          [] l = "vir" -> LemmaEntry("ab,cde", "m", "", "")]

\* The lemma arguments of the calls: every key and one string that is none.
LemmaArgs == DOMAIN LemmaTable \cup {"zzz"}

\* The paradigm arguments of getRoots.
ModelArgs == {None, Some(uita), Some(Paradigm(RKOnly, <<>>, <<>>, <<>>, <<>>))}

(***************************************************************************)
(* State machine: a loaded decliner answering queries.                     *)
(***************************************************************************)
NoCall ==
    [op |-> "none", lemma |-> "", flatten |-> FALSE, model |-> None] @@
    Raised("none")

\* The compiler does not run while the decliner does.
CompilerIdle ==
    /\ normalize = FALSE
    /\ heap = <<>>
    /\ cmodels = <<>>
    /\ last_model = None
    /\ variable_replacement = <<>>
    /\ clemmas = <<>>
    /\ done = <<>>
    /\ lineno = 0

Init ==
    /\ \E p \in Paradigms : models = [n \in {"uita", "m"} |->
                                        IF n = "uita" THEN uita ELSE p]
    /\ lemmas = LemmaTable
    /\ last = NoCall
    /\ CompilerIdle

\* The paradigm table had decline deleted the absent tags from the
\* paradigm's own des instead of from its private forms.
ModelsAbsApplied(op, lemma) ==
    IF op = "decline" /\ lemma \in DOMAIN lemmas
    THEN LET name == lemmas[lemma].model
             model == models[name]
         IN  [models EXCEPT ![name].des =
                SelectSeq(model.des,
                    LAMBDA e : \A i \in 1..Len(model.abs) :
                                  model.abs[i] # int(e.k))]
    ELSE models

\* What a query leaves in self.__models__: neither method assigns into it
\* or into an object reached from it.
ModelsAfter(op, lemma) == models

\* What a query leaves in self.__lemmas__.
LemmasAfter(op, lemma) == lemmas

Decline(lemma, flatten) ==
    /\ last' = [op |-> "decline", lemma |-> lemma, flatten |-> flatten,
                model |-> None] @@ decline(lemma, flatten)
    /\ models' = ModelsAfter("decline", lemma)
    /\ lemmas' = LemmasAfter("decline", lemma)
    /\ UNCHANGED cvars

GetRoots(lemma, model) ==
    /\ last' = [op |-> "getRoots", lemma |-> lemma, flatten |-> FALSE,
                model |-> model] @@ getRoots(lemma, model) @@ Raised("")
    /\ models' = ModelsAfter("getRoots", lemma)
    /\ lemmas' = LemmasAfter("getRoots", lemma)
    /\ UNCHANGED cvars

Next ==
    \/ \E lemma \in LemmaArgs, flatten \in BOOLEAN : Decline(lemma, flatten)
    \/ \E lemma \in LemmaArgs, model \in ModelArgs : GetRoots(lemma, model)

Spec == Init /\ [][Next]_<<vars, cvars>>

(***************************************************************************)
(* Properties.  They read the record of the last call: its arguments, its  *)
(* outcome, and the value of roots and of forms after each pass.           *)
(***************************************************************************)
Returned(op) == last.op = op /\ last.outcome = OK
LastEntry == lemmas[last.lemma]
\* The paradigm the last call worked on.
LastModel ==
    IF last.model = None THEN models[LastEntry.model] ELSE last.model[1]

\* The tags of a dict of forms, and the list a tag maps to.
Tags(forms) == {forms[i].k : i \in 1..Len(forms)}
At(forms, tag) == forms[CHOOSE i \in 1..Len(forms) : forms[i].k = tag].v

\* C1: getRoots returns, for root-id "1" (resp. "2"), the comma-split of a
\* non-empty geninf (resp. perf) whenever the paradigm's R also has a rule
\* for that root-id.
C1_PrecomputedRootsWin ==
    Returned("getRoots") =>
        /\ (LastEntry.geninf # "" /\ DictHas(LastModel.R, "1"))
              => At(last.roots, "1") = split(LastEntry.geninf, ",")
        /\ (LastEntry.perf # "" /\ DictHas(LastModel.R, "2"))
              => At(last.roots, "2") = split(LastEntry.perf, ",")

\* C2: a call on a lemma that is no key of the lemma table raises
\* UnknownLemma and yields nothing; a call on a key never raises it.
C2_UnknownLemmaIffAbsent ==
    last.op \in {"decline", "getRoots"} =>
        /\ last.lemma \notin DOMAIN lemmas =>
              /\ last.outcome = UnknownLemma
              /\ last.roots = <<>> /\ last.forms = <<>> /\ last.flat = <<>>
        /\ last.lemma \in DOMAIN lemmas => last.outcome # UnknownLemma

C2_Witness ==
    /\ last.op = "decline" /\ last.flatten
    /\ last.lemma \notin DOMAIN lemmas
    /\ last.outcome = UnknownLemma

\* The two lookups of decline that can fail on a known lemma.
RootMissing(model, roots) ==
    \E i \in 1..Len(model.des) : \E j \in 1..Len(model.des[i].v) :
        model.des[i].v[j].root_id \notin Tags(roots)
SufTagMissing(model) ==
    \E i \in 1..Len(model.suf) : \E j \in 1..Len(model.suf[i].tags) :
        \A n \in 1..Len(model.des) :
            int(model.des[n].k) # model.suf[i].tags[j]

\* C3: no tag of the paradigm's abs is a key of decline(L); and decline on
\* a known lemma fails only on an unresolved root-id or on a suf tag that
\* des does not hold, never on removing an abs tag.
C3_AbsTagsRemoved ==
    /\ Returned("decline") =>
          \A i \in 1..Len(LastModel.abs) :
              LastModel.abs[i] \notin Tags(last.forms)
    /\ (last.op = "decline" /\ last.outcome = KeyError) =>
          \/ RootMissing(LastModel, getRoots(last.lemma, Some(LastModel)).roots)
          \/ SufTagMissing(LastModel)

C3_Witness ==
    /\ Returned("decline")
    /\ \E i, j \in 1..Len(LastModel.abs) :
          LET t == LastModel.abs[i]
              u == LastModel.abs[j]
          IN  /\ t \in Tags(last.afterSuf)
              /\ Len(At(last.afterSuf, t)) > Len(At(last.base, t))
              /\ u \notin Tags(last.afterSuf)

\* The smallest element of a non-empty set of integers.
Least(S) == CHOOSE x \in S : \A y \in S : x <= y

\* The lists of a dict of forms concatenated by ascending tag.
RECURSIVE AscendingConcat(_, _)
AscendingConcat(forms, tags) ==
    IF tags = {} THEN <<>>
    ELSE At(forms, Least(tags)) \o
         AscendingConcat(forms, tags \ {Least(tags)})

\* C4: decline(L, flatten=true) is the concatenation of the lists of
\* decline(L, flatten=false) by ascending numeric tag.
C4_FlattenIsAscendingConcat ==
    (Returned("decline") /\ last.flatten) =>
        LET unflat == decline(last.lemma, FALSE)
        IN  /\ unflat.outcome = OK
            /\ last.flat = AscendingConcat(unflat.forms, Tags(unflat.forms))

C4_Witness ==
    /\ Returned("decline") /\ last.flatten
    /\ Len(LastModel.sufd) > 0 /\ Len(LastModel.suf) > 0
    /\ Len(LastModel.abs) > 0
    /\ Len(last.forms) >= 2 /\ Len(last.flat) > Len(last.forms)
    /\ \E i \in 1..(Len(LastModel.des) - 1) :
          int(LastModel.des[i].k) > int(LastModel.des[i + 1].k)

\* C5: for a rule (deletion, addition) other than K and each variant s of
\* the citation form with deletion <= Len(s), the root emitted for s is s
\* without its last `deletion` characters, followed by addition.
C5_DerivedRootStripsAndAppends ==
    Returned("getRoots") =>
        \A i \in 1..Len(LastModel.R) :
            LET rid == LastModel.R[i].k
                rule == LastModel.R[i].v
                srcs == split(LastEntry.lemma, ",")
            IN  ~ rule.K =>
                  /\ Len(At(last.roots, rid)) = Len(srcs)
                  /\ \A n \in 1..Len(srcs) :
                        rule.deletion <= Len(srcs[n]) =>
                            At(last.roots, rid)[n] =
                                SubSeq(srcs[n], 1, Len(srcs[n]) - rule.deletion)
                                    \o rule.addition


\* The suffixes suf assigns to a tag, in the order the pass visits them.
SuffixesOf(suf, tag) ==
    Concat([i \in 1..Len(suf) |->
              [n \in 1..Len(SelectSeq(suf[i].tags, LAMBDA t : t = tag)) |->
                  suf[i].suffix]])

\* C6: after the alternative-suffix pass a tag holds the forms it had after
\* the constant-suffix pass, in order, followed for each suffix suf assigns
\* to it by snapshot form + suffix; a tag without suffix is unchanged.
C6_SufAppendsToSnapshot ==
    Returned("decline") =>
        /\ Len(last.afterSuf) = Len(last.afterSufd)
        /\ \A i \in 1..Len(last.afterSufd) :
              LET tag == last.afterSufd[i].k
                  snap == last.afterSufd[i].v
                  res == last.afterSuf[i].v
                  sfx == SuffixesOf(LastModel.suf, tag)
              IN  /\ last.afterSuf[i].k = tag
                  /\ Len(res) = Len(snap) * (1 + Len(sfx))
                  /\ \A f \in 1..Len(snap) :
                        /\ res[f] = snap[f]
                        /\ \A n \in 1..Len(sfx) :
                              res[n * Len(snap) + f] = snap[f] \o sfx[n]

C6_Witness ==
    /\ Returned("decline")
    /\ Len(LastModel.sufd) > 0
    /\ \E i \in 1..Len(last.afterSufd) :
          /\ Len(SuffixesOf(LastModel.suf, last.afterSufd[i].k)) >= 2
          /\ Len(last.afterSufd[i].v) >= 2
          /\ Len(last.afterSuf[i].v) > Len(last.afterSufd[i].v)
    /\ \E i \in 1..Len(last.afterSufd) :
          /\ SuffixesOf(LastModel.suf, last.afterSufd[i].k) = <<>>
          /\ Len(last.afterSufd[i].v) >= 1

\* C7: with a non-empty sufd every tag's list becomes form + sufd_i, sufd
\* in the outer loop and the previous forms in the inner loop, so it is
\* |sufd| times as long; with an empty sufd the lists are unchanged.
C7_SufdCrossProduct ==
    Returned("decline") =>
        LET sufd == LastModel.sufd
        IN  IF Len(sufd) = 0 THEN last.afterSufd = last.base
            ELSE
              /\ Len(last.afterSufd) = Len(last.base)
              /\ \A i \in 1..Len(last.base) :
                    LET old == last.base[i].v
                        new == last.afterSufd[i].v
                    IN  /\ last.afterSufd[i].k = last.base[i].k
                        /\ Len(new) = Len(sufd) * Len(old)
                        /\ \A n \in 1..Len(sufd) : \A f \in 1..Len(old) :
                              new[(n - 1) * Len(old) + f] = old[f] \o sufd[n]

C7_Witness ==
    /\ Returned("decline")
    /\ Len(LastModel.sufd) >= 2
    /\ LastModel.sufd[1] # LastModel.sufd[2]
    /\ \E i \in 1..Len(last.base) :
          /\ Len(last.base[i].v) >= 2
          /\ Len(last.afterSufd[i].v) = Len(LastModel.sufd) * Len(last.base[i].v)

\* The number of forms the first n entries of a tag contribute.
RECURSIVE FormsBefore(_, _, _)
FormsBefore(form_list, roots, n) ==
    IF n = 0 THEN 0
    ELSE FormsBefore(form_list, roots, n - 1)
         + Len(At(roots, form_list[n].root_id)) * Len(form_list[n].endings)

\* C8: before any suffix pass forms holds exactly the tags of des, in
\* ascending order, and a tag's list is, entry after entry in stored
\* order, root + ending with the roots of the entry's root-id in the outer
\* loop and its endings in the inner loop.
C8_BaseFormsOrder ==
    Returned("decline") =>
        /\ Tags(last.base) = {int(LastModel.des[i].k) : i \in 1..Len(LastModel.des)}
        /\ Len(last.base) = Len(LastModel.des)
        /\ \A i \in 1..(Len(last.base) - 1) : last.base[i].k < last.base[i + 1].k
        /\ \A i \in 1..Len(LastModel.des) :
              LET form_list == LastModel.des[i].v
                  got == At(last.base, int(LastModel.des[i].k))
              IN  /\ Len(got) = FormsBefore(form_list, last.roots, Len(form_list))
                  /\ \A e \in 1..Len(form_list) :
                        LET rs == At(last.roots, form_list[e].root_id)
                            es == form_list[e].endings
                            off == FormsBefore(form_list, last.roots, e - 1)
                        IN  \A r \in 1..Len(rs) : \A j \in 1..Len(es) :
                              got[off + (r - 1) * Len(es) + j] = rs[r] \o es[j]

C8_Witness ==
    /\ Returned("decline")
    /\ \E i \in 1..Len(LastModel.des) :
          /\ Len(LastModel.des[i].v) >= 2
          /\ LastModel.des[i].v[1].root_id # LastModel.des[i].v[2].root_id
    /\ \E i \in 1..Len(LastModel.des) :
          /\ Len(LastModel.des[i].v[1].endings) >= 2
          /\ Len(At(last.roots, LastModel.des[i].v[1].root_id)) >= 2

\* The data-model invariants of a paradigm for a lemma with these roots.
WellFormed(model, roots) ==
    \A i \in 1..Len(model.des) :
        /\ Len(model.des[i].v) >= 1
        /\ \A j \in 1..Len(model.des[i].v) :
              /\ Len(model.des[i].v[j].endings) >= 1
              /\ model.des[i].v[j].root_id \in Tags(roots)

\* C9: for a paradigm that meets the data-model invariants, every tag of
\* decline(L) maps to at least one form.
C9_NoEmptyTag ==
    (Returned("decline") /\ WellFormed(LastModel, last.roots)) =>
        \A i \in 1..Len(last.forms) : Len(last.forms[i].v) >= 1

C9_Witness ==
    /\ Returned("decline") /\ WellFormed(LastModel, last.roots)
    /\ Len(LastModel.sufd) > 0 /\ Len(LastModel.suf) > 0
    /\ \E i \in 1..Len(LastModel.abs) : LastModel.abs[i] \in Tags(last.afterSuf)
    /\ Len(last.forms) >= 1

\* The arguments and the result of a call.
Args(call) == <<call.op, call.lemma, call.flatten, call.model>>
Result(call) == <<call.outcome, call.roots, call.forms, call.flat>>

CharAt(s, i) == SubSeq(s, i, i)
\* s[n:]
From(s, n) == SubSeq(s, n + 1, Len(s))
\* s[:n]
UpTo(s, n) == SubSeq(s, 1, n)
startswith(s, prefix) ==
    Len(s) >= Len(prefix) /\ SubSeq(s, 1, Len(prefix)) = prefix

\* s.find(sub) from position i on: the position, or 0 when there is none.
RECURSIVE FindStr(_, _, _)
FindStr(s, sub, i) ==
    IF i + Len(sub) - 1 > Len(s) THEN 0
    ELSE IF SubSeq(s, i, i + Len(sub) - 1) = sub THEN i
    ELSE FindStr(s, sub, i + 1)

\* sub in s
Contains(s, sub) == FindStr(s, sub, 1) # 0

\* s.replace(old, new)
RECURSIVE replace(_, _, _)
replace(s, old, new) ==
    LET i == FindStr(s, old, 1)
    IN  IF i = 0 THEN s
        ELSE UpTo(s, i - 1) \o new
             \o replace(From(s, i + Len(old) - 1), old, new)

\* s.count(c) for a one-character c
count(s, c) == Len(split(s, c)) - 1

\* s.rfind(c) for a one-character c: the last position, or 0.
RECURSIVE rfind(_, _, _)
rfind(s, c, i) ==
    IF i = 0 THEN 0
    ELSE IF CharAt(s, i) = c THEN i ELSE rfind(s, c, i - 1)

\* sep.join(list)
RECURSIVE join(_, _)
join(sep, list) ==
    IF list = <<>> THEN ""
    ELSE IF Len(list) = 1 THEN list[1]
    ELSE list[1] \o sep \o join(sep, Tail(list))

\* s.strip() of blanks
RECURSIVE strip(_)
strip(s) ==
    IF s = "" THEN s
    ELSE IF CharAt(s, 1) = " " THEN strip(From(s, 1))
    ELSE IF CharAt(s, Len(s)) = " " THEN strip(UpTo(s, Len(s) - 1))
    ELSE s

Marked == <<"A", "E", "I", "O", "U">>
Plain == <<"a", "e", "i", "o", "u">>

\* unicodedata.normalize('NFKD', s).encode('ASCII', 'ignore').decode():
\* a marked vowel becomes the plain vowel, its combining mark is dropped.
RECURSIVE normalize_unicode(_)
normalize_unicode(s) ==
    IF s = "" THEN ""
    ELSE LET c == CharAt(s, 1)
         IN  (IF \E i \in 1..Len(Marked) : Marked[i] = c
              THEN Plain[CHOOSE i \in 1..Len(Marked) : Marked[i] = c]
              ELSE c) \o normalize_unicode(From(s, 1))

DigitChars == {Digits[i] : i \in 1..Len(Digits)}
\* \w with re.UNICODE: letters (marked or not), digits and the underscore.
WordChars ==
    DigitChars \cup {Marked[i] : i \in 1..Len(Marked)} \cup
    {"a", "b", "c", "d", "e", "f", "g", "h", "i", "j", "k", "l", "m", "n",
     "o", "p", "q", "r", "s", "t", "u", "v", "w", "x", "y", "z", "K", "_"}

AllIn(s, class) == \A i \in 1..Len(s) : CharAt(s, i) \in class

\* The length of the longest run of characters of class from position i.
RECURSIVE RunLen(_, _, _)
RunLen(s, i, class) ==
    IF i > Len(s) \/ CharAt(s, i) \notin class THEN 0
    ELSE 1 + RunLen(s, i + 1, class)

\* __R.match(line): ^R:(\d+):(\w+)[,:]?(\w+)? ; an absent group is "".
R_match(line) ==
    LET r == RunLen(line, 3, DigitChars)
        p == 3 + r
        m == RunLen(line, p + 1, WordChars)
        q == p + 1 + m
        a0 == IF q <= Len(line) /\ CharAt(line, q) \in {",", ":"}
              THEN q + 1 ELSE q
        a == RunLen(line, a0, WordChars)
    IN  IF ~ startswith(line, "R:") \/ r = 0 \/ p > Len(line)
           \/ CharAt(line, p) # ":" \/ m = 0
        THEN [matched |-> FALSE, root |-> "", remove |-> "", add |-> ""]
        ELSE [matched |-> TRUE, root |-> SubSeq(line, 3, p - 1),
              remove |-> SubSeq(line, p + 1, q - 1),
              add |-> SubSeq(line, a0, a0 + a - 1)]

\* __des.match(line): ^des[\+]?:([\d\-,]+):(\d+):([\w\-,;]+)$
des_match(line) ==
    LET parts == split(line, ":")
    IN  IF /\ Len(parts) = 4
           /\ parts[1] \in {"des", "des+"}
           /\ parts[2] # "" /\ AllIn(parts[2], DigitChars \cup {"-", ","})
           /\ parts[3] # "" /\ AllIn(parts[3], DigitChars)
           /\ parts[4] # "" /\ AllIn(parts[4], WordChars \cup {"-", ",", ";"})
        THEN [matched |-> TRUE, range |-> parts[2], root |-> parts[3],
              des |-> parts[4]]
        ELSE [matched |-> FALSE, range |-> "", root |-> "", des |-> ""]

\* Whether int(x) succeeds for every part of every group of a range.
RangeParses(des_number) ==
    LET groups == split(des_number, ",")
    IN  \A g \in 1..Len(groups) :
            LET parts == split(groups[g], "-")
            IN  /\ Len(parts) \in {1, 2}
                /\ \A i \in 1..Len(parts) :
                      parts[i] # "" /\ AllIn(parts[i], DigitChars)

\* list(range(start, end + 1))
range(start, end) ==
    IF end < start THEN <<>> ELSE [i \in 1..(end - start + 1) |-> start + i - 1]

\* parse_range(des_number): the tags of a range, in written order.
parse_range(des_number) ==
    LET groups == split(des_number, ",")
    IN  Concat([g \in 1..Len(groups) |->
                  IF Contains(groups[g], "-")
                  THEN LET parts == split(groups[g], "-")
                       IN  range(int(parts[1]), int(parts[2]))
                  ELSE <<int(groups[g])>>])

\* re.sub("(\w+)(\+\$VAR)", ...): every word followed by +$VAR becomes the
\* word joined to each alternate of rep; the text from pos on, rewritten.
RECURSIVE sub_plus(_, _, _, _)
sub_plus(line, var, rep, pos) ==
    IF pos > Len(line) THEN ""
    ELSE IF CharAt(line, pos) \notin WordChars
         THEN CharAt(line, pos) \o sub_plus(line, var, rep, pos + 1)
    ELSE
      LET n == RunLen(line, pos, WordChars)
          word == SubSeq(line, pos, pos + n - 1)
          alts == split(rep, ";")
      IN  IF startswith(From(line, pos + n - 1), "+" \o var)
          THEN join(";", [i \in 1..Len(alts) |-> word \o alts[i]])
               \o sub_plus(line, var, rep, pos + n + 1 + Len(var))
          ELSE word \o sub_plus(line, var, rep, pos + n)

\* One turn of the loop over variable_replacement.items().
expand_one(line, var, rep) == replace(sub_plus(line, var, rep, 1), var, rep)

\* The loop over the macros, left as soon as the line holds no "$".
RECURSIVE expand_loop(_, _)
expand_loop(line, macros) ==
    IF macros = <<>> THEN line
    ELSE LET next == expand_one(line, Head(macros).k, Head(macros).v)
         IN  IF ~ Contains(next, "$") THEN next
             ELSE expand_loop(next, Tail(macros))

\* The macro expansion of a des line: `if "$" in line:` and one loop.
expand(line, macros) ==
    IF Contains(line, "$") THEN expand_loop(line, macros) ELSE line


(***************************************************************************)
(* convert_models.  The R and des dicts of a paradigm are objects of the   *)
(* heap and a paradigm holds their addresses: deepcopy allocates, an item  *)
(* assignment writes the object in place.  abs, suf and sufd are only ever *)
(* rebound to a new value, so a paradigm holds them by value.              *)
(***************************************************************************)
AttributeError == "AttributeError"
ValueError == "ValueError"
\* The line was read and the loop goes on.
Read == "read"

\* A list and a str, the two kinds of value the sufd field takes.
PyList(items) == [isStr |-> FALSE, s |-> "", items |-> items]
PyStr(s) == [isStr |-> TRUE, s |-> s, items |-> <<>>]

\* __model, whose R and des are the objects 1 and 2 of the heap.
EmptyModel ==
    [R |-> 1, des |-> 2, abs |-> <<>>, suf |-> <<>>, sufd |-> PyList(<<>>)]
EmptyHeap == << <<>>, <<>> >>

\* copy.copy(model): a paradigm that shares the R and des objects.
shallowcopy(h, model) == [heap |-> h, model |-> model]

\* copy.deepcopy(model): a paradigm with R and des objects of its own.
deepcopy(h, model) ==
    [heap |-> h \o <<h[model.R], h[model.des]>>,
     model |-> [model EXCEPT !.R = Len(h) + 1, !.des = Len(h) + 2]]

\* The state of the loop of convert_models after a line.
State(outcome, h, ms, lm, macros, parsed) ==
    [outcome |-> outcome, heap |-> h, models |-> ms, last_model |-> lm,
     macros |-> macros, parsed |-> parsed]
Here(outcome) ==
    State(outcome, heap, cmodels, last_model, variable_replacement, "")
\* models[last_model] raises KeyError while no modele: line was read.
NoModel == last_model = None
Current == DictGet(cmodels, last_model[1])

\* $VAR=REP
macro_line(line) ==
    LET parts == split(line, "=")
    IN  IF Len(parts) # 2 THEN Here(ValueError)
        ELSE [Here(Read) EXCEPT
                !.macros = DictSet(variable_replacement, parts[1], parts[2])]

\* modele:NAME
modele_line(line) ==
    LET name == From(line, 7)
        copy == deepcopy(heap, EmptyModel)
    IN  [Here(Read) EXCEPT !.last_model = Some(name),
                           !.heap = copy.heap,
                           !.models = DictSet(cmodels, name, copy.model)]

\* pere:PARENT: every field of the child is rebound to a copy of the
\* parent's.
pere_line(line) ==
    LET parent == From(line, 5)
    IN  IF NoModel \/ ~ DictHas(cmodels, parent) THEN Here(KeyError)
        ELSE LET copy == deepcopy(heap, DictGet(cmodels, parent))
             IN  [Here(Read) EXCEPT
                    !.heap = copy.heap,
                    !.models = DictSet(cmodels, last_model[1], copy.model)]

\* The R dict made of the one rule of the line.
OnlyRule(R, root, rule) == DictSet(<<>>, root, rule)
\* models[last_model]["R"][root] = [remove, chars]
SetRule(R, root, rule) == DictSet(R, root, rule)

\* R:ROOT:REMOVE[,ADD]
R_line(line) ==
    LET m == R_match(line)
        chars == IF m.add = "0" THEN "" ELSE m.add
    IN  IF ~ m.matched THEN Here(AttributeError)
        ELSE IF NoModel THEN Here(KeyError)
        ELSE [Here(Read) EXCEPT
                !.heap[Current.R] = SetRule(@, m.root, <<m.remove, chars>>)]

\* d.split(",") alone
raw_alternatives(d) == split(d, ",")
\* d.replace("-", "").split(",")
alternatives(d) == split(replace(d, "-", ""), ",")

\* zip(ids, des.split(";")): as many pairs as the shorter list has.
zip(ids, elements) ==
    [i \in 1..(IF Len(ids) < Len(elements) THEN Len(ids) ELSE Len(elements))
       |-> <<ids[i], elements[i]>>]

\* The loop of the des line over zip(ids, des.split(";")).
RECURSIVE des_loop(_, _, _)
des_loop(des, root, pairs) ==
    IF pairs = <<>> THEN des
    ELSE des_loop(DictSet(des, Head(pairs)[1],
                          <<root, alternatives(Head(pairs)[2])>>),
                  root, Tail(pairs))

\* des:RANGE:ROOT:ENDINGS and des+:RANGE:ROOT:ENDINGS
des_line(line) ==
    LET expanded == expand(line, variable_replacement)
        m == des_match(expanded)
        pairs == zip(parse_range(m.range), split(m.des, ";"))
    IN  IF ~ m.matched THEN [Here(AttributeError) EXCEPT !.parsed = expanded]
        ELSE IF ~ RangeParses(m.range)
             THEN [Here(ValueError) EXCEPT !.parsed = expanded]
        ELSE IF pairs = <<>> THEN [Here(Read) EXCEPT !.parsed = expanded]
        ELSE IF NoModel THEN [Here(KeyError) EXCEPT !.parsed = expanded]
        ELSE [Here(Read) EXCEPT
                !.parsed = expanded,
                !.heap[Current.des] = des_loop(@, m.root, pairs)]

\* A field of models[last_model] rebound to a value.
Rebind(field, value) ==
    IF NoModel THEN Here(KeyError)
    ELSE [Here(Read) EXCEPT
            !.models = DictSet(cmodels, last_model[1],
                               [Current EXCEPT ![field] = value])]

\* abs:RANGE
abs_line(line) ==
    IF ~ RangeParses(From(line, 4)) THEN Here(ValueError)
    ELSE Rebind("abs", parse_range(From(line, 4)))

\* {i: suf for i in ids}
RECURSIVE suf_dict(_, _)
suf_dict(ids, suf) ==
    IF ids = <<>> THEN <<>>
    ELSE DictSet(suf_dict(UpTo(ids, Len(ids) - 1), suf), ids[Len(ids)], suf)

\* suf:RANGE:STRING
suf_line(line) ==
    LET parts == split(From(line, 4), ":")
    IN  IF Len(parts) # 2 \/ ~ RangeParses(parts[1]) THEN Here(ValueError)
        ELSE Rebind("suf", suf_dict(parse_range(parts[1]), parts[2]))

\* sufd:STRING
sufd_line(line) == Rebind("sufd", PyStr(From(line, 5)))

\* The body of the loop of convert_models on one line.
convert_line(raw) ==
    LET line == strip(raw)
    IN  IF startswith(line, "$") THEN macro_line(line)
        ELSE IF Len(line) > 0 /\ ~ startswith(line, "!")
        THEN IF startswith(line, "modele:") THEN modele_line(line)
             ELSE IF startswith(line, "pere:") THEN pere_line(line)
             ELSE IF startswith(line, "R:") THEN R_line(line)
             ELSE IF startswith(line, "des") THEN des_line(line)
             ELSE IF startswith(line, "abs:") THEN abs_line(line)
             ELSE IF startswith(line, "suf:") THEN suf_line(line)
             ELSE IF startswith(line, "sufd:") THEN sufd_line(line)
             ELSE Here(Read)
        ELSE Here(Read)


(***************************************************************************)
(* parseLemma                                                              *)
(***************************************************************************)
\* "|" * n
RECURSIVE Pipes(_)
Pipes(n) == IF n <= 0 THEN "" ELSE "|" \o Pipes(n - 1)

\* The missing "|" are inserted before the last one of the line.
repair(line) ==
    IF count(line, "|") # 4
    THEN LET missing == 4 - count(line, "|")
             last_one == rfind(line, "|", Len(line))
         IN  UpTo(line, last_one - 1) \o Pipes(missing)
             \o From(line, last_one - 1)
    ELSE line

NoLemma ==
    [matched |-> FALSE, lemma |-> "", quantity |-> "", model |-> "",
     geninf |-> "", perf |-> "", lexicon |-> ""]

\* [-]*([\w,]+)?[-]* on a whole field: the group, when the field has the
\* shape.
Stem(field) ==
    LET d1 == RunLen(field, 1, {"-"})
        g == RunLen(field, d1 + 1, WordChars \cup {","})
        d2 == RunLen(field, d1 + g + 1, {"-"})
    IN  [matched |-> d1 + g + d2 = Len(field),
         group |-> SubSeq(field, d1 + 1, d1 + g)]

\* regexp.match(line).groupdict(default=None); None is "".
lemma_match(line) ==
    LET parts == split(line, "|")
        w == RunLen(parts[1], 1, WordChars)
        rest == From(parts[1], w)
    IN  IF /\ Len(parts) >= 5
           /\ w >= 1
           /\ \/ rest = ""
              \/ /\ CharAt(rest, 1) = "="
                 /\ Len(rest) >= 2
                 /\ AllIn(From(rest, 1), WordChars)
           /\ AllIn(parts[2], WordChars)
           /\ Stem(parts[3]).matched
           /\ Stem(parts[4]).matched
        THEN [matched |-> TRUE, lemma |-> UpTo(parts[1], w),
              quantity |-> rest, model |-> parts[2],
              geninf |-> Stem(parts[3]).group,
              perf |-> Stem(parts[4]).group,
              lexicon |-> join("|", SubSeq(parts, 5, Len(parts)))]
        ELSE NoLemma

\* The token before the first "|", whole.
WholeToken(result) == result.lemma \o result.quantity
\* result["lemma"]
LemmaGroup(result) == result.lemma

\* The entry stored for a matched line.
lemma_entry(result) ==
    [lemma |-> LemmaGroup(result), quantity |-> result.quantity,
     model |-> result.model, geninf |-> result.geninf,
     perf |-> result.perf, lexicon |-> result.lexicon]

\* The body of the loop of parseLemma on one line: the lemmas after it.
parse_lemma_line(line) ==
    IF ~ startswith(line, "!") /\ Contains(line, "|")
    THEN LET result == lemma_match(repair(line))
         IN  IF ~ result.matched THEN clemmas
             ELSE DictSet(clemmas, normalize_unicode(result.lemma),
                          lemma_entry(result))
    ELSE clemmas

(***************************************************************************)
(* The compiler as a state machine: one step per source line.              *)
(***************************************************************************)
\* Source files of paradigms, as the sets their lines are drawn from.
InheritFile ==
    {"modele:p", "modele:c", "pere:p", "R:0:K", "R:1:1,0", "R:1:2,x"}
EndingsFile ==
    {"modele:p", "modele:c", "pere:p", "des:1-3:1:a;-;A,-i",
     "des+:2,4:0:e,i;o", "abs:2"}
SuffixFile ==
    {"modele:p", "modele:c", "pere:p", "suf:1-2:ce", "suf:4:ine",
     "sufd:que", "sufd:a;b"}
MacroFile ==
    {"$b=x;y", "$a=$b", "modele:p", "des:3:0:i+$b", "des:1-2:0:$a",
     " abs:1-2", "!c"}
ModelFiles == <<InheritFile, EndingsFile, SuffixFile, MacroFile>>
\* A source file of lemmas.
LemmaFile ==
    {"Amo=Amo|m|-Am-|amAu|x", "amo|n|||", "rex|x", "=x|m|||", "!c|",
     "ab=Ab|m|a-b||"}

\* The dicts a reader of models sees: addresses followed.
Value(h, ms) ==
    [i \in 1..Len(ms) |->
       [k |-> ms[i].k,
        v |-> [R |-> h[ms[i].v.R], des |-> h[ms[i].v.des],
               abs |-> ms[i].v.abs, suf |-> ms[i].v.suf,
               sufd |-> ms[i].v.sufd]]]
compiled == Value(heap, cmodels)

\* The decliner does not run while the compiler does.
DeclinerIdle == models = <<>> /\ lemmas = <<>> /\ last = <<>>
NoLine(fn, file) ==
    [fn |-> fn, file |-> file, outcome |-> Read, line |-> "none",
     parsed |-> "", before |-> <<>>, pere |-> <<>>]
CompilerInit ==
    /\ DeclinerIdle
    /\ normalize \in BOOLEAN
    /\ heap = EmptyHeap
    /\ cmodels = <<>>
    /\ last_model = None
    /\ variable_replacement = <<>>
    /\ clemmas = <<>>
    /\ \/ \E file \in 1..Len(ModelFiles) :
             done = NoLine("convert_models", file)
       \/ done = NoLine("parseLemma", 0)
    /\ lineno = 0

\* if normalize: lines = normalize_unicode("\n".join(lines)).split("\n")
Normalized(raw) == IF normalize THEN normalize_unicode(raw) ELSE raw

\* The parent each paradigm last inherited from.
PereAfter(line, step) ==
    IF startswith(strip(line), "pere:") /\ step.outcome = Read
    THEN DictSet(done.pere, last_model[1], From(strip(line), 5))
    ELSE done.pere

ConvertLine(raw) ==
    /\ done.fn = "convert_models"
    /\ done.outcome = Read
    /\ lineno < MaxLines
    /\ LET line == Normalized(raw)
           step == convert_line(line)
       IN  /\ heap' = step.heap
           /\ cmodels' = step.models
           /\ last_model' = step.last_model
           /\ variable_replacement' = step.macros
           /\ done' = [done EXCEPT !.outcome = step.outcome,
                                   !.line = line,
                                   !.parsed = step.parsed,
                                   !.before = compiled,
                                   !.pere = PereAfter(line, step)]
    /\ lineno' = lineno + 1
    /\ UNCHANGED <<normalize, clemmas>>
    /\ UNCHANGED vars

ParseLemmaLine(raw) ==
    /\ done.fn = "parseLemma"
    /\ lineno < MaxLines
    /\ LET line == Normalized(raw)
       IN  /\ clemmas' = parse_lemma_line(line)
           /\ done' = [done EXCEPT !.line = line, !.before = clemmas]
    /\ lineno' = lineno + 1
    /\ UNCHANGED <<normalize, heap, cmodels, last_model,
                   variable_replacement>>
    /\ UNCHANGED vars

\* The lines of the source file convert_models was given.
ModelLines ==
    IF done.file \in 1..Len(ModelFiles) THEN ModelFiles[done.file] ELSE {}

CompilerNext ==
    \/ \E raw \in ModelLines : ConvertLine(raw)
    \/ \E raw \in LemmaFile : ParseLemmaLine(raw)

CompilerSpec == CompilerInit /\ [][CompilerNext]_<<vars, cvars>>


(***************************************************************************)
(* Properties of the compiler.  They read the record of the last line:     *)
(* the line, the line that was parsed, the outcome, and the paradigms as   *)
(* they were before the line.                                              *)
(***************************************************************************)
LastLine == strip(done.line)
LineRead(prefix) ==
    /\ done.fn = "convert_models"
    /\ done.outcome = Read
    /\ last_model # None
    /\ startswith(LastLine, prefix)
\* The current paradigm as a reader sees it, after and before the line.
Now == DictGet(compiled, last_model[1])
Before == DictGet(done.before, last_model[1])
\* The fields of the des line that was parsed.
DesFields == split(done.parsed, ":")
DesTags == parse_range(DesFields[2])
DesElements == split(DesFields[4], ";")
Elems(list) == {list[i] : i \in 1..Len(list)}
\* An ending in which "-" stands for the empty string.
Decoded(ending) == replace(ending, "-", "")
DecodedAlternatives(element) ==
    LET alts == split(element, ",")
    IN  [j \in 1..Len(alts) |-> Decoded(alts[j])]

\* C11: after a des or des+ line whose range expands to as many tags as
\* the line has semicolon-separated elements, the des of the current
\* paradigm maps the i-th tag to the root id of the line and the
\* comma-separated alternatives of the i-th element, "-" read as the empty
\* string.
C11_DesLineMapsTagsToEndings ==
    (LineRead("des") /\ Len(DesTags) = Len(DesElements)) =>
        \A i \in 1..Len(DesTags) :
            /\ DictHas(Now.des, DesTags[i])
            /\ DictGet(Now.des, DesTags[i]) =
                   <<DesFields[3], DecodedAlternatives(DesElements[i])>>

\* A des line of three tags was read, whose second element is "-".
C11_Witness ==
    /\ LineRead("des:1-3:1:")
    /\ Len(DesTags) = 3 /\ Len(DesElements) = 3
    /\ DesElements[2] = "-"
    /\ DictGet(Now.des, 2) = <<"1", <<"">>>>

\* A line that writes a field of the current paradigm.
FieldLine ==
    /\ done.fn = "convert_models"
    /\ \E prefix \in {"R:", "des", "abs:", "suf:", "sufd:"} :
          startswith(LastLine, prefix)

\* C12: an R, des, des+, abs, suf or sufd line leaves every field of every
\* paradigm other than the current one as it was, the parent the current
\* paradigm inherited from included.
C12_InheritanceIsolation ==
    FieldLine =>
        /\ Len(compiled) = Len(done.before)
        /\ \A i \in 1..Len(compiled) :
              (last_model = None \/ compiled[i].k # last_model[1]) =>
                  compiled[i] = done.before[i]

\* The child c, equal to its parent p since pere:p, was changed by a line
\* and p was not.
C12_Witness ==
    /\ FieldLine
    /\ done.outcome = Read
    /\ last_model = Some("c")
    /\ DictHas(done.pere, "c") /\ DictGet(done.pere, "c") = "p"
    /\ DictGet(done.before, "p").R # <<>>
    /\ Before = DictGet(done.before, "p")
    /\ Now # Before
    /\ DictGet(compiled, "p") = DictGet(done.before, "p")

\* The entries of a dict other than those of the given keys.
Others(d, ks) == SelectSeq(d, LAMBDA e : e.k \notin ks)
\* Every entry of dict d outside the keys ks is still in e, with its value.
Kept(d, e, ks) ==
    \A i \in 1..Len(d) :
        d[i].k \notin ks => DictHas(e, d[i].k) /\ DictGet(e, d[i].k) = d[i].v

\* C13: an R line for root id r changes only R[r] of the current paradigm
\* and a des or des+ line only the des entries of the tags of its range:
\* every other rule and entry, inherited or not, keeps its value.
C13_PerKeyOverride ==
    /\ LineRead("R:") =>
          /\ Kept(Before.R, Now.R, {split(LastLine, ":")[2]})
          /\ Others(Now.R, {split(LastLine, ":")[2]})
               = Others(Before.R, {split(LastLine, ":")[2]})
          /\ Now.des = Before.des
    /\ LineRead("des") =>
          /\ Kept(Before.des, Now.des, Elems(DesTags))
          /\ Others(Now.des, Elems(DesTags))
               = Others(Before.des, Elems(DesTags))
          /\ Now.R = Before.R

\* The child c inherited the rules 0 and 1 of p; an R line for 1 gave c
\* another rule 1, and rule 0 of c is still the one of p.
C13_Witness ==
    /\ LineRead("R:1:")
    /\ last_model = Some("c")
    /\ DictHas(done.pere, "c") /\ DictGet(done.pere, "c") = "p"
    /\ Before.R = DictGet(compiled, "p").R
    /\ DictHas(Before.R, "0") /\ DictHas(Before.R, "1")
    /\ DictGet(Now.R, "1") # DictGet(Before.R, "1")
    /\ DictGet(Now.R, "0") = DictGet(DictGet(compiled, "p").R, "0")

\* The range and the suffix of the suf line.
SufFields == split(From(LastLine, 4), ":")
SufTags == parse_range(SufFields[1])

\* C14: after a suf line every tag of its range has the suffix of the
\* line, and the suf entries the paradigm held for other tags are still
\* there with their suffix.
C14_SufKeepsOtherTags ==
    LineRead("suf:") =>
        /\ \A i \in 1..Len(SufTags) :
              /\ DictHas(Now.suf, SufTags[i])
              /\ DictGet(Now.suf, SufTags[i]) = SufFields[2]
        /\ Kept(Before.suf, Now.suf, Elems(SufTags))

\* for sufd in model["sufd"]: the items of a list, the characters of a str.
Iterate(value) ==
    IF value.isStr THEN [i \in 1..Len(value.s) |-> CharAt(value.s, i)]
    ELSE value.items

\* C15: after a sufd line the sufd of the current paradigm holds the
\* semicolon-separated alternates of the line, one whole suffix each, so
\* that the decliner's loop over sufd meets each whole alternate.
C15_SufdIsAlternates ==
    LineRead("sufd:") =>
        Iterate(Now.sufd) = split(From(LastLine, 5), ";")

\* The macro passes repeated while the line holds a "$", up to n times.
RECURSIVE expand_repeated(_, _, _)
expand_repeated(line, macros, n) ==
    IF n = 0 \/ ~ Contains(line, "$") THEN line
    ELSE expand_repeated(expand_loop(line, macros), macros, n - 1)

\* The line references declared macros only, through any number of macros.
OnlyDeclared(line) ==
    ~ Contains(expand_repeated(line, variable_replacement,
                               Len(variable_replacement) + 1), "$")

\* C16: a des or des+ line that references declared macros only, whatever
\* the order of their declarations, is parsed with no "$" left in it.
C16_MacrosExpandedUntilNone ==
    (/\ done.fn = "convert_models"
     /\ startswith(LastLine, "des")
     /\ OnlyDeclared(LastLine)) =>
        /\ ~ Contains(done.parsed, "$")
        /\ done.outcome # AttributeError

\* The lemma token of the last line of parseLemma, and its two parts.
Token == split(done.line, "|")[1]
TokenParts == split(Token, "=")
\* A lemma line with a quantity suffix was stored.
QuantityLine ==
    /\ done.fn = "parseLemma"
    /\ lineno > 0
    /\ ~ startswith(done.line, "!") /\ Contains(done.line, "|")
    /\ lemma_match(repair(done.line)).matched
    /\ Len(TokenParts) = 2
StoredEntry == DictGet(clemmas, normalize_unicode(TokenParts[1]))

\* C17 as stated: the entry of a lemma line with a quantity suffix is
\* keyed by the folded lemma without the suffix and its lemma field still
\* holds the suffix.
C17_LemmaFieldKeepsQuantity ==
    QuantityLine =>
        /\ DictHas(clemmas, normalize_unicode(TokenParts[1]))
        /\ StoredEntry.lemma = Token

\* C17: the entry of a lemma line with a quantity suffix is keyed by the
\* folded lemma without the suffix; its lemma field is the lemma without
\* the suffix, and the suffix is kept in its quantity field.
C17_QuantityKeptApart ==
    QuantityLine =>
        /\ DictHas(clemmas, normalize_unicode(TokenParts[1]))
        /\ StoredEntry.lemma = TokenParts[1]
        /\ StoredEntry.quantity = "=" \o TokenParts[2]

\* A lemma written with a marked vowel and a quantity suffix was stored
\* under its folded form.
C17_Witness ==
    /\ QuantityLine
    /\ ~ normalize
    /\ Token = "Amo=Amo"
    /\ DictHas(clemmas, "amo")
    /\ DictGet(clemmas, "amo").lemma = "Amo"
    /\ DictGet(clemmas, "amo").quantity = "=Amo"

====
